---- MODULE Spec2Model ----
(***************************************************************************)
(* Model of Common::ThreadPool (src/src/common/thread_pool.cpp, which      *)
(* holds both the accessor functions and the class) and of the             *)
(* process-wide accessor InitializeThreadPool / GetThreadPool /            *)
(* ShutdownThreadPool.                                                     *)
(*                                                                         *)
(* Threads are workers W(p, i) of pool instance p and callers C(c).  Each  *)
(* std::mutex is a variable naming its holder; a critical section is an    *)
(* acquire step followed by a body step that releases.  The condition      *)
(* variable's wait set is the set of workers whose pc is "blocked".        *)
(***************************************************************************)
EXTENDS Integers, Sequences, FiniteSets, TLC

\* ---- bounds ----
MaxThreads == 2
NumCallers == 2
MaxTasks == 2
MaxPools == 2
MaxGlobalTasks == 1
MaxPinnedTasks == 1
WordBits == 6

\* ---- program constants ----
DefaultThreads == 3

VARIABLES alive, stop, tasks, nthreads, queue_mutex,
          g_thread_pool, g_pool_mutex,
          pc, cur, ref, jn, arg,
          kind, future, runs,
          appended, claimed, joins,
          android, mask, result, pins,
          size, alignment, aligned_size, ptr, a_pc

poolVars == <<alive, stop, tasks, nthreads, queue_mutex>>
globVars == <<g_thread_pool, g_pool_mutex>>
thrVars == <<pc, cur, ref, jn, arg>>
taskVars == <<kind, future, runs>>
histVars == <<appended, claimed, joins>>
affVars == <<android, mask, result, pins>>
allocVars == <<size, alignment, aligned_size, ptr, a_pc>>
vars == <<poolVars, globVars, thrVars, taskVars, histVars, affVars, allocVars>>

Pools == 1..MaxPools
WMax == IF MaxThreads > DefaultThreads THEN MaxThreads ELSE DefaultThreads
Workers == 1..WMax
Callers == 1..NumCallers
Tasks == 1..MaxTasks
NoPool == 0
NoTask == 0

W(p, i) == <<"w", p, i>>
C(c) == <<"c", c, 0>>
Free == <<"free", 0, 0>>
WorkerThreads == {W(p, i) : p \in Pools, i \in Workers}
CallerThreads == {C(c) : c \in Callers}
Threads == WorkerThreads \cup CallerThreads

NoFuture == [st |-> "none", val |-> 0]
Pending == [st |-> "pending", val |-> 0]
Rejected == [st |-> "rejected", val |-> 0]

\* the caller is between two calls ("waited": WaitForTasks has returned)
AtRest(th) == pc[th] \in {"idle", "waited"}

\* threads that are inside a member function of pool p
Inside(p) == {th \in CallerThreads : ~AtRest(th) /\ ref[th] = p}

\* ---- pure pieces of the worker loop ----
\* condition.wait predicate
WaitPred(s, q) == s \/ q # <<>>

\* a worker that leaves as soon as the stop flag is set
ExitOnStop(s, q) == s

\* the exit test after the wait
ExitCond(s, q) == s /\ q = <<>>

\* tasks.pop() left out
PopNothing(q) == q

\* tasks.pop()
PopFront(q) == Tail(q)

\* the lock still held when the task body runs
KeepsLock(holder) == holder

\* the mutex state after the dequeue scope closes
AfterDequeue(holder) == Free

\* what the body of task t returns when it does not throw
ValueOf(t) == t

\* what packaged_task::operator() stores in the shared state of task t
Outcome(k, t) == IF k = "throw" THEN [st |-> "exception", val |-> 0]
                 ELSE [st |-> "value", val |-> ValueOf(t)]

\* the exception of a throwing body ends the worker's function
DiesOnThrow(k) == IF k = "throw" THEN "exited" ELSE "lock"

\* where the worker goes after task() returns
AfterTask(k) == "lock"

\* the threads notify_one may wake: one of the waiters, if there is any
Waiters(p) == {i \in Workers : pc[W(p, i)] = "blocked"}

\* ---- construction ----
\* the loop bound written as i <= num_threads
SpawnedOneMore(p, n, th) == \E i \in 1..(n + 1) : th = W(p, i)

\* for (i = 0; i < num_threads; ++i) workers.emplace_back(...)
Spawned(p, n, th) == \E i \in 1..n : th = W(p, i)

\* ThreadPool::ThreadPool(num_threads): spawns num_threads workers
SpawnPc(p, n) == [th \in Threads |->
                    IF Spawned(p, n, th) THEN "start" ELSE pc[th]]

\* GetThreadCount(): workers.size()
GetThreadCount(p) == Cardinality({i \in Workers : pc[W(p, i)] # "none"})

\* ---- worker loop ----
\* ---- core affinity (src/src/common/cpu_affinity.cpp) ----
\* a failed call that resets the thread to all cores
SchedSetAffinityResets(m, want) ==
    {[mask |-> want, ok |-> TRUE], [mask |-> "any", ok |-> FALSE]}

\* sched_setaffinity(tid, sizeof(cpuset), &cpuset): the kernel either
\* installs the mask or rejects the call and leaves the thread's mask alone
SchedSetAffinity(m, want) ==
    {[mask |-> want, ok |-> TRUE], [mask |-> m, ok |-> FALSE]}

\* what the function leaves behind: the mask, and the line it logs
Logged(f, ok) == IF ok THEN "ok" ELSE IF f = "big" THEN "big_failed" ELSE "failed"

\* SetBigCoreAffinity / SetLittleCoreAffinity / ResetCoreAffinity called by
\* thread th: the real function under __ANDROID__, the empty stub otherwise
AffinityCall(th, f) ==
    IF android
    THEN \E o \in SchedSetAffinity(mask[th], f) :
             /\ mask' = [mask EXCEPT ![th] = o.mask]
             /\ result' = [result EXCEPT ![th] = Logged(f, o.ok)]
    ELSE UNCHANGED <<mask, result>>

\* the worker's entry calling SetLittleCoreAffinity
EntryCallLittle(a) == IF a THEN "little" ELSE "none"

\* the call at the worker's entry: SetBigCoreAffinity() inside
\* #ifdef __ANDROID__, nothing in other builds
EntryCall(a) == IF a THEN "big" ELSE "none"

WorkerStart(p, i) ==
    /\ pc[W(p, i)] = "start"
    /\ pc' = [pc EXCEPT ![W(p, i)] = "lock"]
    /\ IF EntryCall(android) = "none"
       THEN UNCHANGED <<mask, result, pins>>
       ELSE /\ AffinityCall(W(p, i), EntryCall(android))
            /\ pins' = [pins EXCEPT ![W(p, i)] =
                           IF EntryCall(android) = "big" THEN @ + 1 ELSE @]
    /\ UNCHANGED <<android, poolVars, globVars, cur, ref, jn, arg, taskVars,
                   histVars, allocVars>>

\* a caller pins or unpins itself
CallAffinity(c, f) ==
    /\ AtRest(C(c))
    /\ AffinityCall(C(c), f)
    /\ UNCHANGED <<android, pins, poolVars, globVars, thrVars, taskVars,
                   histVars, allocVars>>

WorkerLock(p, i) ==
    /\ pc[W(p, i)] = "lock"
    /\ queue_mutex[p] = Free
    /\ queue_mutex' = [queue_mutex EXCEPT ![p] = W(p, i)]
    /\ pc' = [pc EXCEPT ![W(p, i)] = "locked"]
    /\ UNCHANGED <<affVars, allocVars, alive, stop, tasks, nthreads, globVars, cur, ref, jn, arg,
                   taskVars, histVars>>

WorkerWait(p, i) ==
    /\ pc[W(p, i)] = "locked"
    /\ ~WaitPred(stop[p], tasks[p])
    /\ queue_mutex' = [queue_mutex EXCEPT ![p] = Free]
    /\ pc' = [pc EXCEPT ![W(p, i)] = "blocked"]
    /\ UNCHANGED <<affVars, allocVars, alive, stop, tasks, nthreads, globVars, cur, ref, jn, arg,
                   taskVars, histVars>>

SpuriousWakeup(p, i) ==
    /\ pc[W(p, i)] = "blocked"
    /\ pc' = [pc EXCEPT ![W(p, i)] = "lock"]
    /\ UNCHANGED <<affVars, allocVars, poolVars, globVars, cur, ref, jn, arg, taskVars, histVars>>

WorkerExit(p, i) ==
    /\ pc[W(p, i)] = "locked"
    /\ WaitPred(stop[p], tasks[p])
    /\ ExitCond(stop[p], tasks[p])
    /\ queue_mutex' = [queue_mutex EXCEPT ![p] = Free]
    /\ pc' = [pc EXCEPT ![W(p, i)] = "exited"]
    /\ UNCHANGED <<affVars, allocVars, alive, stop, tasks, nthreads, globVars, cur, ref, jn, arg,
                   taskVars, histVars>>

WorkerDequeue(p, i) ==
    /\ pc[W(p, i)] = "locked"
    /\ WaitPred(stop[p], tasks[p])
    /\ ~ExitCond(stop[p], tasks[p])
    /\ tasks[p] # <<>>
    /\ cur' = [cur EXCEPT ![W(p, i)] = Head(tasks[p])]
    /\ tasks' = [tasks EXCEPT ![p] = PopFront(tasks[p])]
    /\ claimed' = [claimed EXCEPT ![p] = Append(@, <<i, Head(tasks[p])>>)]
    /\ queue_mutex' = [queue_mutex EXCEPT ![p] = AfterDequeue(W(p, i))]
    /\ pc' = [pc EXCEPT ![W(p, i)] = "run"]
    /\ UNCHANGED <<affVars, allocVars, alive, stop, nthreads, globVars, ref, jn, arg, taskVars,
                   appended, joins>>

\* task(): a body that returns a value or throws
TaskRun(p, i) ==
    /\ pc[W(p, i)] = "run"
    /\ kind[cur[W(p, i)]] \in {"ok", "throw"}
    /\ future' = [future EXCEPT ![cur[W(p, i)]] = Outcome(kind[cur[W(p, i)]], cur[W(p, i)])]
    /\ runs' = [runs EXCEPT ![cur[W(p, i)]] = @ + 1]
    /\ cur' = [cur EXCEPT ![W(p, i)] = NoTask]
    /\ pc' = [pc EXCEPT ![W(p, i)] = AfterTask(kind[cur[W(p, i)]])]
    /\ UNCHANGED <<affVars, allocVars, poolVars, globVars, ref, jn, arg, kind, histVars>>

\* ---- Enqueue ----
Unused == {t \in Tasks : kind[t] = "none"}
FreshTask == CHOOSE t \in Unused : \A u \in Unused : t <= u

EnqueueLock(c, p, k) ==
    /\ AtRest(C(c))
    /\ alive[p] \in {"live", "dying"}
    /\ Unused # {}
    /\ queue_mutex[p] = Free
    /\ kind' = [kind EXCEPT ![FreshTask] = k]
    /\ future' = [future EXCEPT ![FreshTask] = Pending]
    /\ cur' = [cur EXCEPT ![C(c)] = FreshTask]
    /\ ref' = [ref EXCEPT ![C(c)] = p]
    /\ queue_mutex' = [queue_mutex EXCEPT ![p] = C(c)]
    /\ pc' = [pc EXCEPT ![C(c)] = "enq_cs"]
    /\ UNCHANGED <<affVars, allocVars, alive, stop, tasks, nthreads, globVars, jn, arg, runs, histVars>>

\* the stop test left out
NeverRefuses(s) == FALSE

\* the stop test
Refuses(s) == s

EnqueueReject(c) ==
    /\ pc[C(c)] = "enq_cs"
    /\ Refuses(stop[ref[C(c)]])
    /\ future' = [future EXCEPT ![cur[C(c)]] = Rejected]
    /\ queue_mutex' = [queue_mutex EXCEPT ![ref[C(c)]] = Free]
    /\ cur' = [cur EXCEPT ![C(c)] = NoTask]
    /\ pc' = [pc EXCEPT ![C(c)] = "idle"]
    /\ UNCHANGED <<affVars, allocVars, alive, stop, tasks, nthreads, globVars, ref, jn, arg, kind,
                   runs, histVars>>

\* the task put at the front of the queue
EmplaceFront(q, t) == <<t>> \o q

\* tasks.emplace
Emplace(q, t) == Append(q, t)

EnqueueAccept(c) ==
    /\ pc[C(c)] = "enq_cs"
    /\ ~Refuses(stop[ref[C(c)]])
    /\ tasks' = [tasks EXCEPT ![ref[C(c)]] = Emplace(@, cur[C(c)])]
    /\ appended' = [appended EXCEPT ![ref[C(c)]] = Append(@, cur[C(c)])]
    /\ queue_mutex' = [queue_mutex EXCEPT ![ref[C(c)]] = Free]
    /\ pc' = [pc EXCEPT ![C(c)] = "enq_notify"]
    /\ UNCHANGED <<affVars, allocVars, alive, stop, nthreads, globVars, cur, ref, jn, arg, taskVars,
                   claimed, joins>>

\* notify_one left out
NotifyNobody(p, ws) == {pc}

\* condition.notify_one, then return res
NotifyOne(p, ws) == IF ws = {} THEN {pc}
                    ELSE {[pc EXCEPT ![W(p, i)] = "lock"] : i \in ws}

EnqueueNotify(c) ==
    /\ pc[C(c)] = "enq_notify"
    /\ \E f \in NotifyOne(ref[C(c)], Waiters(ref[C(c)])) :
           pc' = [f EXCEPT ![C(c)] = "idle"]
    /\ cur' = [cur EXCEPT ![C(c)] = NoTask]
    /\ UNCHANGED <<affVars, allocVars, poolVars, globVars, ref, jn, arg, taskVars, histVars>>

\* ---- WaitForTasks ----
WaitLock(c, p) ==
    /\ AtRest(C(c))
    /\ alive[p] \in {"live", "dying"}
    /\ queue_mutex[p] = Free
    /\ ref' = [ref EXCEPT ![C(c)] = p]
    /\ queue_mutex' = [queue_mutex EXCEPT ![p] = C(c)]
    /\ pc' = [pc EXCEPT ![C(c)] = "wait_cs"]
    /\ UNCHANGED <<affVars, allocVars, alive, stop, tasks, nthreads, globVars, cur, jn, arg, taskVars,
                   histVars>>

\* a polling loop with no way out
WaitBreaksNever(q) == FALSE

\* WaitForTasks returning without looking at the queue
WaitBreaksAlways(q) == TRUE

\* the test that ends the polling loop
WaitBreaks(q) == q = <<>>

WaitReturn(c) ==
    /\ pc[C(c)] = "wait_cs"
    /\ WaitBreaks(tasks[ref[C(c)]])
    /\ queue_mutex' = [queue_mutex EXCEPT ![ref[C(c)]] = Free]
    /\ pc' = [pc EXCEPT ![C(c)] = "waited"]
    /\ UNCHANGED <<affVars, allocVars, alive, stop, tasks, nthreads, globVars, cur, ref, jn, arg,
                   taskVars, histVars>>

WaitUnlock(c) ==
    /\ pc[C(c)] = "wait_cs"
    /\ ~WaitBreaks(tasks[ref[C(c)]])
    /\ queue_mutex' = [queue_mutex EXCEPT ![ref[C(c)]] = Free]
    /\ pc' = [pc EXCEPT ![C(c)] = "wait_yield"]
    /\ UNCHANGED <<affVars, allocVars, alive, stop, tasks, nthreads, globVars, cur, ref, jn, arg,
                   taskVars, histVars>>

WaitYield(c) ==
    /\ pc[C(c)] = "wait_yield"
    /\ queue_mutex[ref[C(c)]] = Free
    /\ queue_mutex' = [queue_mutex EXCEPT ![ref[C(c)]] = C(c)]
    /\ pc' = [pc EXCEPT ![C(c)] = "wait_cs"]
    /\ UNCHANGED <<affVars, allocVars, alive, stop, tasks, nthreads, globVars, cur, ref, jn, arg,
                   taskVars, histVars>>

\* ---- ~ThreadPool ----
\* the owner of a pool that is not the global one lets it go out of scope
Destroy(c, p) ==
    /\ AtRest(C(c))
    /\ alive[p] = "live"
    /\ g_thread_pool # p
    /\ alive' = [alive EXCEPT ![p] = "dying"]
    /\ ref' = [ref EXCEPT ![C(c)] = p]
    /\ pc' = [pc EXCEPT ![C(c)] = "dtor_lock"]
    /\ UNCHANGED <<affVars, allocVars, stop, tasks, nthreads, queue_mutex, globVars, cur, jn, arg,
                   taskVars, histVars>>

DtorLock(c) ==
    /\ pc[C(c)] = "dtor_lock"
    /\ queue_mutex[ref[C(c)]] = Free
    /\ queue_mutex' = [queue_mutex EXCEPT ![ref[C(c)]] = C(c)]
    /\ pc' = [pc EXCEPT ![C(c)] = "dtor_cs"]
    /\ UNCHANGED <<affVars, allocVars, alive, stop, tasks, nthreads, globVars, cur, ref, jn, arg,
                   taskVars, histVars>>

DtorSetStop(c) ==
    /\ pc[C(c)] = "dtor_cs"
    /\ stop' = [stop EXCEPT ![ref[C(c)]] = TRUE]
    /\ queue_mutex' = [queue_mutex EXCEPT ![ref[C(c)]] = Free]
    /\ pc' = [pc EXCEPT ![C(c)] = "dtor_notify"]
    /\ UNCHANGED <<affVars, allocVars, alive, tasks, nthreads, globVars, cur, ref, jn, arg, taskVars,
                   histVars>>

\* condition.notify_all
NotifyAll(p, ws) == [th \in Threads |->
                       IF \E i \in ws : th = W(p, i) THEN "lock" ELSE pc[th]]

DtorNotifyAll(c) ==
    /\ pc[C(c)] = "dtor_notify"
    /\ pc' = [NotifyAll(ref[C(c)], Waiters(ref[C(c)])) EXCEPT
                 ![C(c)] = "dtor_join"]
    /\ jn' = [jn EXCEPT ![C(c)] = 1]
    /\ UNCHANGED <<affVars, allocVars, poolVars, globVars, cur, ref, arg, taskVars, histVars>>

\* worker.join() returns once the worker's function has returned
Joinable(p, i) == pc[W(p, i)] = "exited"

\* worker.joinable(): the thread has not been joined yet
IsJoinable(p, i) == pc[W(p, i)] # "joined"

\* one round of the join loop: a thread that is not joinable is skipped
DtorJoin(c) ==
    /\ pc[C(c)] = "dtor_join"
    /\ jn[C(c)] <= nthreads[ref[C(c)]]
    /\ IF IsJoinable(ref[C(c)], jn[C(c)])
       THEN /\ Joinable(ref[C(c)], jn[C(c)])
            /\ pc' = [pc EXCEPT ![W(ref[C(c)], jn[C(c)])] = "joined"]
            /\ joins' = [joins EXCEPT ![W(ref[C(c)], jn[C(c)])] = @ + 1]
       ELSE UNCHANGED <<pc, joins>>
    /\ jn' = [jn EXCEPT ![C(c)] = @ + 1]
    /\ UNCHANGED <<affVars, allocVars, poolVars, globVars, cur, ref, arg, taskVars, appended,
                   claimed>>

\* The destructor returns.  A C++ object must not be used once its
\* destructor has returned, so the callers of the pool have left it.
DtorReturn(c) ==
    /\ pc[C(c)] = "dtor_join"
    /\ jn[C(c)] > nthreads[ref[C(c)]]
    /\ Inside(ref[C(c)]) = {C(c)}
    /\ alive' = [alive EXCEPT ![ref[C(c)]] = "dead"]
    /\ pc' = [pc EXCEPT ![C(c)] =
                 IF g_pool_mutex = C(c) THEN "shut_ret" ELSE "idle"]
    /\ jn' = [jn EXCEPT ![C(c)] = 0]
    /\ UNCHANGED <<affVars, allocVars, stop, tasks, nthreads, queue_mutex, globVars, cur, ref,
                   arg, taskVars, histVars>>

\* ---- process-wide accessor ----
Unborn == {p \in Pools : alive[p] = "unborn"}
FreshPool == CHOOSE p \in Unborn : \A q \in Unborn : p <= q

\* the lazy creation left out
NeverCreate(g) == FALSE

\* the test left out: a pool is made on every call
AlwaysCreate(g) == TRUE

\* the test "if (!g_thread_pool)"
NeedsCreate(g) == g = NoPool

\* g_thread_pool = std::make_unique<ThreadPool>(n) when the test passes
MakePool(n) ==
    IF NeedsCreate(g_thread_pool)
    THEN /\ Unborn # {}
         /\ g_thread_pool' = FreshPool
         /\ alive' = [alive EXCEPT ![FreshPool] = "live"]
         /\ nthreads' = [nthreads EXCEPT ![FreshPool] = n]
    ELSE UNCHANGED <<g_thread_pool, alive, nthreads>>

\* std::lock_guard on g_pool_mutex
CanLockPool(m) == m = Free

InitializeLock(c, n) ==
    /\ AtRest(C(c))
    /\ CanLockPool(g_pool_mutex)
    /\ g_thread_pool # NoPool \/ Unborn # {}
    /\ g_pool_mutex' = C(c)
    /\ arg' = [arg EXCEPT ![C(c)] = n]
    /\ pc' = [pc EXCEPT ![C(c)] = "init_cs"]
    /\ UNCHANGED <<affVars, allocVars, poolVars, g_thread_pool, cur, ref, jn, taskVars, histVars>>

InitializeBody(c) ==
    /\ pc[C(c)] = "init_cs"
    /\ MakePool(arg[C(c)])
    /\ pc' = [IF NeedsCreate(g_thread_pool)
              THEN SpawnPc(FreshPool, arg[C(c)]) ELSE pc
              EXCEPT ![C(c)] = "idle"]
    /\ g_pool_mutex' = Free
    /\ arg' = [arg EXCEPT ![C(c)] = 0]
    /\ UNCHANGED <<affVars, allocVars, stop, tasks, queue_mutex, cur, ref, jn, taskVars, histVars>>

GetLock(c) ==
    /\ AtRest(C(c))
    /\ CanLockPool(g_pool_mutex)
    /\ g_thread_pool # NoPool \/ Unborn # {}
    /\ g_pool_mutex' = C(c)
    /\ pc' = [pc EXCEPT ![C(c)] = "get_cs"]
    /\ UNCHANGED <<affVars, allocVars, poolVars, g_thread_pool, cur, ref, jn, arg, taskVars,
                   histVars>>

GetBody(c) ==
    /\ pc[C(c)] = "get_cs"
    /\ MakePool(DefaultThreads)
    /\ pc' = [IF NeedsCreate(g_thread_pool)
              THEN SpawnPc(FreshPool, DefaultThreads) ELSE pc
              EXCEPT ![C(c)] = "idle"]
    /\ ref' = [ref EXCEPT ![C(c)] = g_thread_pool']
    /\ g_pool_mutex' = Free
    /\ UNCHANGED <<affVars, allocVars, stop, tasks, queue_mutex, cur, jn, arg, taskVars, histVars>>

\* a task body that calls GetThreadPool()
TaskGetLock(p, i) ==
    /\ pc[W(p, i)] = "run"
    /\ kind[cur[W(p, i)]] = "getpool"
    /\ CanLockPool(g_pool_mutex)
    /\ g_thread_pool # NoPool \/ Unborn # {}
    /\ g_pool_mutex' = W(p, i)
    /\ pc' = [pc EXCEPT ![W(p, i)] = "get_cs"]
    /\ UNCHANGED <<affVars, allocVars, poolVars, g_thread_pool, cur, ref, jn, arg, taskVars,
                   histVars>>

\* GetThreadPool returns to the task body, which then returns
TaskGetBody(p, i) ==
    /\ pc[W(p, i)] = "get_cs"
    /\ MakePool(DefaultThreads)
    /\ pc' = [IF NeedsCreate(g_thread_pool)
              THEN SpawnPc(FreshPool, DefaultThreads) ELSE pc
              EXCEPT ![W(p, i)] = AfterTask("getpool")]
    /\ g_pool_mutex' = Free
    /\ future' = [future EXCEPT ![cur[W(p, i)]] = Outcome("getpool", cur[W(p, i)])]
    /\ runs' = [runs EXCEPT ![cur[W(p, i)]] = @ + 1]
    /\ cur' = [cur EXCEPT ![W(p, i)] = NoTask]
    /\ UNCHANGED <<affVars, allocVars, stop, tasks, queue_mutex, ref, jn, arg, kind, histVars>>

ShutdownLock(c) ==
    /\ AtRest(C(c))
    /\ CanLockPool(g_pool_mutex)
    /\ g_pool_mutex' = C(c)
    /\ pc' = [pc EXCEPT ![C(c)] = "shut_cs"]
    /\ UNCHANGED <<affVars, allocVars, poolVars, g_thread_pool, cur, ref, jn, arg, taskVars,
                   histVars>>

\* nothing to shut down
ShutdownNoop(c) ==
    /\ pc[C(c)] = "shut_cs"
    /\ g_thread_pool = NoPool
    /\ g_pool_mutex' = Free
    /\ pc' = [pc EXCEPT ![C(c)] = "idle"]
    /\ UNCHANGED <<affVars, allocVars, poolVars, g_thread_pool, cur, ref, jn, arg, taskVars,
                   histVars>>

\* the lock the destructor runs under: g_thread_pool.reset() is called
\* inside the lock_guard's scope
HeldDuringReset(holder) == holder

\* a reset that leaves the handle pointing at the destroyed pool
KeepsHandle(g) == g

\* the handle after reset()
ResetHandle(g) == NoPool

\* g_thread_pool.reset(): the pointer is cleared, then ~ThreadPool runs
ShutdownReset(c) ==
    /\ pc[C(c)] = "shut_cs"
    /\ g_thread_pool # NoPool
    /\ alive' = [alive EXCEPT ![g_thread_pool] = "dying"]
    /\ ref' = [ref EXCEPT ![C(c)] = g_thread_pool]
    /\ g_thread_pool' = ResetHandle(g_thread_pool)
    /\ g_pool_mutex' = HeldDuringReset(C(c))
    /\ pc' = [pc EXCEPT ![C(c)] = "dtor_lock"]
    /\ UNCHANGED <<affVars, allocVars, stop, tasks, nthreads, queue_mutex, cur, jn, arg, taskVars,
                   histVars>>

ShutdownReturn(c) ==
    /\ pc[C(c)] = "shut_ret"
    /\ g_pool_mutex' = Free
    /\ pc' = [pc EXCEPT ![C(c)] = "idle"]
    /\ UNCHANGED <<affVars, allocVars, poolVars, g_thread_pool, cur, ref, jn, arg, taskVars,
                   histVars>>

\* ---- AlignedAlloc (src/src/common/aligned_allocator.h) ----
RECURSIVE Pow2(_)
Pow2(n) == IF n = 0 THEN 1 ELSE 2 * Pow2(n - 1)

\* size_t: unsigned, WordBits wide
SizeMax == Pow2(WordBits) - 1
Wrap(x) == x % Pow2(WordBits)

\* a & b and ~a on size_t, bit by bit
RECURSIVE BitAnd(_, _, _)
BitAnd(a, b, n) ==
    IF n = 0 THEN 0
    ELSE (a % 2) * (b % 2) + 2 * BitAnd(a \div 2, b \div 2, n - 1)
BitNot(a) == SizeMax - a

\* size_t aligned_size = (size + alignment - 1) & ~(alignment - 1);
AlignUp(s, a) == BitAnd(Wrap(Wrap(s + a) - 1 + Pow2(WordBits)),
                        BitNot(Wrap(a - 1 + Pow2(WordBits))), WordBits)

Sizes == 0..SizeMax
Alignments == {Pow2(k) : k \in 0..(WordBits - 1)}

\* no AlignedAlloc call in this run
NoAllocation == size = 0 /\ alignment = 1

AlignSize ==
    /\ a_pc = "entry"
    /\ aligned_size' = AlignUp(size, alignment)
    /\ a_pc' = "allocate"
    /\ UNCHANGED <<size, alignment, ptr, poolVars, globVars, thrVars,
                   taskVars, histVars, affVars>>

\* ptr = aligned_alloc(alignment, aligned_size): the allocator hands out a
\* block of the byte count it was asked for, or a null pointer
Allocate ==
    /\ a_pc = "allocate"
    /\ ptr' \in {"null", "block"}
    /\ a_pc' = "check"
    /\ UNCHANGED <<size, alignment, aligned_size, poolVars, globVars,
                   thrVars, taskVars, histVars, affVars>>

\* if (!ptr) throw std::bad_alloc();
AllocThrow ==
    /\ a_pc = "check"
    /\ ptr = "null"
    /\ a_pc' = "bad_alloc"
    /\ UNCHANGED <<size, alignment, aligned_size, ptr, poolVars, globVars,
                   thrVars, taskVars, histVars, affVars>>

\* return ptr;
AllocReturn ==
    /\ a_pc = "check"
    /\ ptr # "null"
    /\ a_pc' = "returned"
    /\ UNCHANGED <<size, alignment, aligned_size, ptr, poolVars, globVars,
                   thrVars, taskVars, histVars, affVars>>

\* ---- a pool owned directly by a caller ----
InitCommon ==
    /\ stop = [p \in Pools |-> FALSE]
    /\ tasks = [p \in Pools |-> <<>>]
    /\ queue_mutex = [p \in Pools |-> Free]
    /\ g_thread_pool = NoPool
    /\ g_pool_mutex = Free
    /\ cur = [th \in Threads |-> NoTask]
    /\ ref = [th \in Threads |-> NoPool]
    /\ jn = [th \in Threads |-> 0]
    /\ arg = [th \in Threads |-> 0]
    /\ kind = [t \in Tasks |-> "none"]
    /\ future = [t \in Tasks |-> NoFuture]
    /\ runs = [t \in Tasks |-> 0]
    /\ appended = [p \in Pools |-> <<>>]
    /\ claimed = [p \in Pools |-> <<>>]
    /\ joins = [th \in WorkerThreads |-> 0]
    /\ mask = [th \in Threads |-> "any"]
    /\ result = [th \in Threads |-> "none"]
    /\ pins = [th \in WorkerThreads |-> 0]
    /\ aligned_size = 0
    /\ ptr = "unset"
    /\ a_pc = "entry"

OnePool ==
    /\ InitCommon
    /\ \E n \in 0..MaxThreads :
         /\ nthreads = [p \in Pools |-> IF p = 1 THEN n ELSE 0]
         /\ pc = [th \in Threads |->
                    IF th \in CallerThreads THEN "idle"
                    ELSE IF Spawned(1, n, th) THEN "start"
                    ELSE "none"]
    /\ alive = [p \in Pools |-> IF p = 1 THEN "live" ELSE "unborn"]

Init ==
    /\ OnePool
    /\ android = FALSE
    /\ NoAllocation

WorkerStep(p, i) ==
    \/ WorkerStart(p, i)
    \/ WorkerLock(p, i)
    \/ WorkerWait(p, i)
    \/ WorkerExit(p, i)
    \/ WorkerDequeue(p, i)
    \/ TaskRun(p, i)

EnqueueStep(c) ==
    \/ EnqueueReject(c)
    \/ EnqueueAccept(c)
    \/ EnqueueNotify(c)

WaitStep(c) ==
    \/ WaitReturn(c)
    \/ WaitUnlock(c)
    \/ WaitYield(c)

DtorStep(c) ==
    \/ DtorLock(c)
    \/ DtorSetStop(c)
    \/ DtorNotifyAll(c)
    \/ DtorJoin(c)
    \/ DtorReturn(c)

Next ==
    \/ \E p \in Pools, i \in Workers : WorkerStep(p, i)
    \/ \E p \in Pools, i \in Workers : SpuriousWakeup(p, i)
    \/ \E c \in Callers, p \in Pools, k \in {"ok", "throw"} :
           EnqueueLock(c, p, k)
    \/ \E c \in Callers, p \in Pools : WaitLock(c, p)
    \/ \E c \in Callers, p \in Pools : Destroy(c, p)
    \/ \E c \in Callers : EnqueueStep(c)
    \/ \E c \in Callers : WaitStep(c)
    \/ \E c \in Callers : DtorStep(c)

Spec == Init /\ [][Next]_vars

\* ---- the process-wide pool ----
\* GetThreadPool().Enqueue(...) through the reference GetThreadPool returned
SubmitToGlobal(c, k) ==
    /\ ref[C(c)] # NoPool
    /\ Cardinality(Tasks \ Unused) < MaxGlobalTasks
    /\ EnqueueLock(c, ref[C(c)], k)

GlobalInit ==
    /\ InitCommon
    /\ android = FALSE
    /\ NoAllocation
    /\ nthreads = [p \in Pools |-> 0]
    /\ pc = [th \in Threads |-> IF th \in CallerThreads THEN "idle" ELSE "none"]
    /\ alive = [p \in Pools |-> "unborn"]

AccessorStep(c) ==
    \/ InitializeBody(c)
    \/ GetLock(c)
    \/ GetBody(c)
    \/ ShutdownLock(c)
    \/ ShutdownNoop(c)
    \/ ShutdownReset(c)
    \/ ShutdownReturn(c)

GlobalNext ==
    \/ \E p \in Pools, i \in Workers : WorkerStep(p, i)
    \/ \E p \in Pools, i \in Workers : SpuriousWakeup(p, i)
    \/ \E p \in Pools, i \in Workers : TaskGetLock(p, i)
    \/ \E p \in Pools, i \in Workers : TaskGetBody(p, i)
    \/ \E c \in Callers, n \in 0..MaxThreads : InitializeLock(c, n)
    \/ \E c \in Callers : AccessorStep(c)
    \/ \E c \in Callers, k \in {"ok", "getpool"} : SubmitToGlobal(c, k)
    \/ \E c \in Callers : EnqueueStep(c)
    \/ \E c \in Callers : DtorStep(c)

GlobalSpec == GlobalInit /\ [][GlobalNext]_vars

\* ---- both builds, with threads that pin themselves ----
AffinityInit ==
    /\ OnePool
    /\ android \in BOOLEAN
    /\ NoAllocation

\* Enqueue on the pool by a caller that may have pinned itself
SubmitPinned(c) ==
    /\ Cardinality(Tasks \ Unused) < MaxPinnedTasks
    /\ EnqueueLock(c, 1, "ok")

AffinityNext ==
    \/ \E p \in Pools, i \in Workers : WorkerStep(p, i)
    \/ \E p \in Pools, i \in Workers : SpuriousWakeup(p, i)
    \/ \E c \in Callers : SubmitPinned(c)
    \/ \E c \in Callers : EnqueueStep(c)
    \/ \E c \in Callers : Destroy(c, 1)
    \/ \E c \in Callers : DtorStep(c)
    \/ \E c \in Callers, f \in {"big", "little", "any"} : CallAffinity(c, f)

AffinitySpec == AffinityInit /\ [][AffinityNext]_vars

\* ---- a call of AlignedAlloc ----
\* one call AlignedAlloc(size, alignment) with any size_t size and any
\* power-of-two alignment a size_t holds
AllocInit ==
    /\ InitCommon
    /\ android = FALSE
    /\ nthreads = [p \in Pools |-> 0]
    /\ pc = [th \in Threads |-> IF th \in CallerThreads THEN "idle" ELSE "none"]
    /\ alive = [p \in Pools |-> "unborn"]
    /\ size \in Sizes
    /\ alignment \in Alignments

AllocNext == AlignSize \/ Allocate \/ AllocThrow \/ AllocReturn

AllocSpec == AllocInit /\ [][AllocNext]_vars

\* ---- properties of one pool ----
ClaimedTasks(p) == [j \in 1..Len(claimed[p]) |-> claimed[p][j][2]]
Accepted == {t \in Tasks : \E p \in Pools : \E j \in 1..Len(appended[p]) :
                              appended[p][j] = t}
Count(q, t) == Cardinality({j \in 1..Len(q) : q[j] = t})
Holders(t) == {th \in WorkerThreads : cur[th] = t}
Done(t) == future[t].st \in {"value", "exception"}

\* C2: tasks are dequeued in the order they were appended: in every state
\* the sequence of tasks claimed from a pool's queue so far is a prefix of
\* the sequence of tasks appended to it, whoever the claiming workers are.
FifoClaimOrder ==
    \A p \in Pools :
        /\ Len(claimed[p]) <= Len(appended[p])
        /\ \A j \in 1..Len(claimed[p]) : ClaimedTasks(p)[j] = appended[p][j]

\* two tasks of one pool claimed by two different workers, the second
\* finished while the first is still running
FifoClaimWitness ==
    /\ Len(claimed[1]) = 2
    /\ claimed[1][1][1] # claimed[1][2][1]
    /\ Done(claimed[1][2][2])
    /\ ~Done(claimed[1][1][2])

\* C3: every accepted task is, at any time, in exactly one place: once in
\* the queue, or held by exactly one worker, or executed exactly once; it
\* has been claimed at most once and never ran twice.
ExactlyOnce ==
    \A t \in Accepted : \A p \in Pools :
        Count(appended[p], t) > 0 =>
            /\ Count(appended[p], t) = 1
            /\ Count(tasks[p], t) + Cardinality(Holders(t)) + runs[t] = 1
            /\ Count(ClaimedTasks(p), t) = Cardinality(Holders(t)) + runs[t]
            /\ Done(t) <=> runs[t] = 1

\* two submitters inside Enqueue at once while a worker runs a task, and
\* another task already executed
ExactlyOnceWitness ==
    /\ pc[C(1)] = "enq_notify"
    /\ pc[C(2)] = "enq_cs"
    /\ \E i \in Workers : pc[W(1, i)] = "run" /\ cur[W(1, i)] = cur[C(1)]
    /\ nthreads[1] >= 2

\* C4: when the destructor has returned the stop flag is set, every worker
\* has terminated and been joined, the queue is empty and every accepted
\* task has been executed.
GracefulTeardown ==
    \A p \in Pools :
        alive[p] = "dead" =>
            /\ stop[p]
            /\ \A i \in 1..nthreads[p] : pc[W(p, i)] = "joined"
            /\ tasks[p] = <<>>
            /\ \A j \in 1..Len(appended[p]) :
                   runs[appended[p][j]] = 1 /\ Done(appended[p][j])

\* C5: an Enqueue that holds the queue lock with the stop flag set ends by
\* raising the error and leaves the queue as it was; a refused task stays
\* refused, is in no queue and is never claimed or run.
RefusedIsInert(t) ==
    future[t] = Rejected =>
        /\ runs[t] = 0
        /\ Holders(t) = {}
        /\ \A p \in Pools : Count(tasks[p], t) = 0 /\ Count(appended[p], t) = 0

EnqueueAfterStopFails ==
    /\ [](\A t \in Tasks : RefusedIsInert(t))
    /\ [][\A c \in Callers :
            /\ (pc[C(c)] = "enq_cs" /\ stop[ref[C(c)]] /\ pc'[C(c)] # "enq_cs")
                 => /\ future'[cur[C(c)]] = Rejected
                    /\ pc'[C(c)] = "idle"
                    /\ tasks' = tasks
            /\ \A t \in Tasks : future[t] = Rejected => future'[t] = Rejected
         ]_vars

\* an Enqueue was refused during teardown and the pool has since been
\* destroyed with its other task executed
EnqueueAfterStopWitness ==
    /\ alive[1] = "dead"
    /\ \E t \in Tasks : future[t] = Rejected
    /\ \E t \in Tasks : Done(t)

\* C7: WaitForTasks returns only from a critical section in which it saw
\* the queue empty.
WaitReturnsOnEmptyQueue ==
    [][\A c \in Callers :
          (pc[C(c)] = "wait_cs" /\ pc'[C(c)] = "waited")
              => tasks[ref[C(c)]] = <<>> /\ queue_mutex[ref[C(c)]] = C(c)
      ]_vars

\* WaitForTasks has returned while a task dequeued earlier is still running
\* with its future unresolved
WaitReturnedTaskInFlight ==
    \E c \in Callers, i \in Workers :
        /\ pc[C(c)] = "waited"
        /\ pc[W(1, i)] = "run"
        /\ future[cur[W(1, i)]] = Pending

\* C8: every pool that exists has at least one worker.
EveryPoolHasAWorker ==
    \A p \in Pools : alive[p] # "unborn" => nthreads[p] >= 1


\* ---- fair scheduling ----
\* Every thread that can take a step eventually takes it; a thread waiting
\* for a mutex gets it if it is free again and again.  Spurious wakeups and
\* new calls by the callers are not forced.
WorkerFair(p, i) ==
    /\ WF_vars(WorkerStart(p, i))
    /\ SF_vars(WorkerLock(p, i))
    /\ WF_vars(WorkerWait(p, i) \/ WorkerExit(p, i) \/ WorkerDequeue(p, i)
                 \/ TaskRun(p, i))

CallerFair(c) ==
    /\ WF_vars(EnqueueStep(c))
    /\ WF_vars(WaitReturn(c) \/ WaitUnlock(c))
    /\ SF_vars(WaitYield(c))
    /\ SF_vars(DtorLock(c))
    /\ WF_vars(DtorSetStop(c) \/ DtorNotifyAll(c) \/ DtorJoin(c)
                 \/ DtorReturn(c))

FairSpec ==
    /\ Init
    /\ [][Next]_vars
    /\ \A i \in 1..MaxThreads : WorkerFair(1, i)
    /\ \A c \in Callers : CallerFair(c)

\* C1: on a pool with at least one worker every accepted task is
\* eventually executed, exactly once, and its future resolved.
AcceptedTasksComplete ==
    \A t \in Tasks :
        (Count(appended[1], t) = 1 /\ nthreads[1] >= 1)
            ~> (runs[t] = 1 /\ Done(t) /\ Count(tasks[1], t) = 0)

\* teardown has begun with a task still queued behind one that a worker
\* has already executed
TeardownWithQueuedTask ==
    /\ alive[1] = "dying"
    /\ stop[1]
    /\ nthreads[1] >= 1
    /\ tasks[1] # <<>>
    /\ \E t \in Tasks : Done(t)

\* C6: a task body that throws leaves its worker in the loop and touches
\* no future but its own; a future holds the value of an "ok" body or the
\* exception of a throwing one; and a value-returning task queued behind a
\* throwing one eventually yields its value.
QueuedBehindFailure(t) ==
    /\ kind[t] = "ok"
    /\ nthreads[1] >= 1
    /\ \E j, k \in 1..Len(appended[1]) :
           j < k /\ kind[appended[1][j]] = "throw" /\ appended[1][k] = t

FailureIsIsolated ==
    /\ [](\A t \in Tasks :
            /\ future[t].st = "value" => kind[t] # "throw" /\ future[t].val = ValueOf(t)
            /\ future[t].st = "exception" => kind[t] = "throw")
    /\ [][\A i \in Workers :
            (pc[W(1, i)] = "run" /\ kind[cur[W(1, i)]] = "throw"
               /\ pc'[W(1, i)] # "run")
              => /\ pc'[W(1, i)] = "lock"
                 /\ future'[cur[W(1, i)]].st = "exception"
                 /\ \A u \in Tasks \ {cur[W(1, i)]} : future'[u] = future[u]
         ]_vars
    /\ \A t \in Tasks :
           QueuedBehindFailure(t) ~> (future[t] = [st |-> "value", val |-> ValueOf(t)])

\* fail-then-value on a single worker: the first task threw, the second,
\* run by the same worker, yielded its own value
FailThenValue ==
    /\ nthreads[1] = 1
    /\ appended[1] = <<1, 2>>
    /\ future[1].st = "exception"
    /\ future[2] = [st |-> "value", val |-> ValueOf(2)]
    /\ claimed[1] = <<<<1, 1>>, <<1, 2>>>>


\* ---- properties of the process-wide accessor ----
DtorPcs == {"dtor_lock", "dtor_cs", "dtor_notify", "dtor_join"}
InAccessor(th) == pc[th] \in {"init_cs", "get_cs", "shut_cs", "shut_ret"} \cup DtorPcs
LivePools == {p \in Pools : alive[p] \in {"live", "dying"}}
PoolsWithThreads == {p \in Pools : \E i \in Workers :
                                      pc[W(p, i)] \notin {"none", "joined"}}

\* C9: a task body that calls GetThreadPool is never kept waiting for the
\* accessor lock by a ShutdownThreadPool that holds it while it waits for
\* the pool's tasks and workers to finish.
ShutdownNeverBlocksTaskBody ==
    \A p \in Pools, i \in Workers, c \in Callers :
        ~ /\ pc[W(p, i)] = "run"
          /\ kind[cur[W(p, i)]] = "getpool"
          /\ g_pool_mutex = C(c)
          /\ pc[C(c)] = "dtor_join"
          /\ ref[C(c)] = p

\* C10: at most one global pool instance is live, the workers of two
\* instances never coexist, the handle names a live instance, and at most
\* one thread is inside an accessor critical section.
OneGlobalPool ==
    /\ Cardinality(LivePools) <= 1
    /\ Cardinality(PoolsWithThreads) <= 1
    /\ g_thread_pool # NoPool => LivePools = {g_thread_pool}
    /\ Cardinality({th \in Threads : InAccessor(th)}) <= 1
    /\ \A th \in Threads : InAccessor(th) => g_pool_mutex = th

\* a second instance is live after the first was shut down, one caller is
\* in ShutdownThreadPool's critical section and a worker of the second
\* instance is running a task
SecondPoolAfterShutdown ==
    /\ alive[1] = "dead"
    /\ alive[2] = "live"
    /\ \E c \in Callers : pc[C(c)] = "shut_cs"
    /\ \E i \in Workers : pc[W(2, i)] = "run"


\* C11: InitializeThreadPool called while a global pool exists changes
\* nothing of it: the handle, the instance's life, its thread count, its
\* queue, its stop flag and its workers are as before, and no other
\* instance is made.
InitializeKeepsExistingPool ==
    [][\A c \in Callers :
          (pc[C(c)] = "init_cs" /\ g_thread_pool # NoPool
             /\ pc'[C(c)] # "init_cs")
            => /\ pc'[C(c)] = "idle"
               /\ g_thread_pool' = g_thread_pool
               /\ alive' = alive
               /\ nthreads' = nthreads
               /\ tasks' = tasks
               /\ stop' = stop
               /\ \A th \in WorkerThreads : pc'[th] = pc[th]
      ]_vars

\* a second InitializeThreadPool, with another thread count, is in its
\* critical section over a lazily made pool that has a task queued
SecondInitialize ==
    \E c \in Callers :
        /\ pc[C(c)] = "init_cs"
        /\ g_thread_pool # NoPool
        /\ arg[C(c)] # nthreads[g_thread_pool]
        /\ tasks[g_thread_pool] # <<>>

\* C12: GetThreadPool with no global pool makes a new instance with exactly
\* 3 workers, all at their entry, and returns it; with a pool it returns
\* that pool and makes none.
GetCreatesDefaultOrReturns ==
    [][\A c \in Callers :
          (pc[C(c)] = "get_cs" /\ pc'[C(c)] # "get_cs")
            => /\ pc'[C(c)] = "idle"
               /\ ref'[C(c)] = g_thread_pool'
               /\ g_thread_pool' # NoPool
               /\ alive'[g_thread_pool'] = "live"
               /\ IF g_thread_pool = NoPool
                  THEN /\ alive[g_thread_pool'] = "unborn"
                       /\ nthreads'[g_thread_pool'] = 3
                       /\ {i \in Workers : pc'[W(g_thread_pool', i)] = "start"}
                            = 1..3
                       /\ \A p \in Pools \ {g_thread_pool'} :
                              alive'[p] = alive[p]
                  ELSE /\ g_thread_pool' = g_thread_pool
                       /\ alive' = alive
                       /\ nthreads' = nthreads
                       /\ \A th \in WorkerThreads : pc'[th] = pc[th]
      ]_vars

\* after a shutdown GetThreadPool has made a second instance with the
\* default three workers and returned it
LazyPoolAfterShutdown ==
    \E c \in Callers :
        /\ alive[1] = "dead"
        /\ g_thread_pool = 2
        /\ GetThreadCount(2) = 3
        /\ nthreads[2] > MaxThreads
        /\ ref[C(c)] = 2
        /\ pc[C(c)] = "idle"


\* C14: while a pool exists GetThreadCount returns the thread count it was
\* constructed with, and that count never changes, whatever Enqueue,
\* WaitForTasks, the workers and the destructor do.
ThreadCountIsFixed ==
    /\ [](\A p \in Pools :
            alive[p] # "unborn" => GetThreadCount(p) = nthreads[p])
    /\ [][\A p \in Pools :
            alive[p] # "unborn"
              => /\ nthreads'[p] = nthreads[p]
                 /\ \A i \in Workers :
                        (pc[W(p, i)] = "none") <=> (pc'[W(p, i)] = "none")
         ]_vars

\* a pool of two workers during teardown: one worker has exited, a task
\* has been executed and a WaitForTasks has returned
ThreadCountAfterWork ==
    /\ alive[1] = "dying"
    /\ GetThreadCount(1) = 2
    /\ \E i \in Workers : pc[W(1, i)] = "exited"
    /\ \E t \in Tasks : Done(t)
    /\ \E c \in Callers : pc[C(c)] = "waited"

\* C16: no worker holds the queue lock while it executes a task body.
NoLockWhileRunning ==
    \A p \in Pools, i \in Workers :
        pc[W(p, i)] \in {"run", "get_cs"} => queue_mutex[p] # W(p, i)

\* the only worker of a pool is busy with a task and an Enqueue has just
\* been admitted
EnqueueWhileAllBusy ==
    \E c \in Callers :
        /\ nthreads[1] = 1
        /\ pc[W(1, 1)] = "run"
        /\ pc[C(c)] = "enq_notify"
        /\ tasks[1] = <<cur[C(c)]>>

\* C17: a worker leaves its loop only from the critical section, holding
\* the queue lock, with the stop flag set and the queue empty; no worker
\* has left while the stop flag is clear; and a worker that holds the lock
\* with a task queued claims it, stop flag or not.
WorkerExitsOnlyWhenDrained ==
    /\ [](\A p \in Pools, i \in Workers :
            pc[W(p, i)] \in {"exited", "joined"} => stop[p])
    /\ [][\A p \in Pools, i \in Workers :
            /\ (pc[W(p, i)] # "exited" /\ pc'[W(p, i)] = "exited")
                 => /\ pc[W(p, i)] = "locked"
                    /\ queue_mutex[p] = W(p, i)
                    /\ stop[p]
                    /\ tasks[p] = <<>>
            /\ (pc[W(p, i)] = "locked" /\ tasks[p] # <<>>
                  /\ pc'[W(p, i)] # "locked")
                 => /\ pc'[W(p, i)] = "run"
                    /\ cur'[W(p, i)] = Head(tasks[p])
         ]_vars

\* with the stop flag set one worker has left, the queue being empty,
\* while the other still runs the last task
ExitAfterDrain ==
    \E i, j \in Workers :
        /\ stop[1]
        /\ pc[W(1, i)] = "exited"
        /\ pc[W(1, j)] = "run"
        /\ tasks[1] = <<>>
        /\ Len(claimed[1]) = MaxTasks

\* C19: on a pool with at least one worker a WaitForTasks call eventually
\* returns, and its polling steps leave every queue as it is.
WaitPcs == {"wait_cs", "wait_yield"}

WaitForTasksTerminates ==
    /\ \A c \in Callers :
           (pc[C(c)] \in WaitPcs /\ nthreads[1] >= 1) ~> (pc[C(c)] = "waited")
    /\ [][\A c \in Callers :
            (pc[C(c)] \in WaitPcs \/ pc'[C(c)] \in WaitPcs) /\ pc'[C(c)] # pc[C(c)]
              => tasks' = tasks /\ appended' = appended /\ claimed' = claimed
         ]_vars

\* a WaitForTasks that found the queue non-empty is polling again
WaitIsPolling ==
    \E c \in Callers :
        /\ pc[C(c)] = "wait_yield"
        /\ nthreads[1] >= 1
        /\ tasks[1] # <<>>


\* C13: ShutdownThreadPool with no pool to shut down is a no-op that just
\* returns; over any sequence of shutdowns every worker thread is joined at
\* most once, and exactly once when its pool's destructor has returned.
ShutdownIsIdempotent ==
    /\ [](\A p \in Pools, i \in Workers :
            /\ joins[W(p, i)] <= 1
            /\ (pc[W(p, i)] = "joined") <=> (joins[W(p, i)] = 1)
            /\ (alive[p] = "dead" /\ i <= nthreads[p]) => joins[W(p, i)] = 1)
    /\ [][\A c \in Callers :
            (pc[C(c)] = "shut_cs" /\ LivePools = {} /\ pc'[C(c)] # "shut_cs")
              => /\ pc'[C(c)] = "idle"
                 /\ g_pool_mutex' = Free
                 /\ g_thread_pool' = NoPool
                 /\ poolVars' = poolVars
                 /\ joins' = joins
                 /\ \A th \in WorkerThreads : pc'[th] = pc[th]
         ]_vars

\* a ShutdownThreadPool is in its critical section right after an earlier
\* one destroyed the only pool and joined its workers
SecondShutdown ==
    \E c \in Callers :
        /\ pc[C(c)] = "shut_cs"
        /\ alive = [p \in Pools |-> IF p = 1 THEN "dead" ELSE "unborn"]
        /\ nthreads[1] >= 2
        /\ \A i \in 1..nthreads[1] : joins[W(1, i)] = 1

\* ---- core affinity ----
\* C15 as stated: after the OS rejected the mask change of
\* SetBigCoreAffinity the calling thread is allowed on any core, whatever
\* affinity it had before the call.
RejectedPinRunsUnconstrained ==
    \A th \in Threads : result[th] = "big_failed" => mask[th] = "any"

\* C15: when the OS rejects the mask change of SetBigCoreAffinity the call
\* returns normally to its caller (a caller is where it was, a worker goes
\* on into its loop) and the calling thread keeps exactly the affinity it
\* had before the call.
RejectedPinKeepsMask ==
    [][\A th \in Threads :
          result'[th] = "big_failed"
            => /\ mask'[th] = mask[th]
               /\ result[th] # "big_failed"
                    => IF th \in CallerThreads
                       THEN pc'[th] = pc[th]
                       ELSE pc[th] = "start" /\ pc'[th] = "lock"
      ]_vars

\* a caller pinned to the efficiency cores whose SetBigCoreAffinity was
\* rejected, next to a worker whose entry call was rejected too
RejectedPinOnLittleCores ==
    /\ \E c \in Callers : result[C(c)] = "big_failed" /\ mask[C(c)] = "little"
    /\ \E i \in Workers : result[W(1, i)] = "big_failed" /\ pc[W(1, i)] = "run"

\* C18 as stated: every worker requests performance-core affinity exactly
\* once before its first wait on the queue.
EveryWorkerPinsAtEntry ==
    \A th \in WorkerThreads : pc[th] \notin {"none", "start"} => pins[th] = 1

\* C18: in a build with __ANDROID__ defined every worker calls
\* SetBigCoreAffinity exactly once, on its own thread, before it first locks
\* the queue, waits or claims a task, and never asks for another class of
\* cores; in any other build a worker makes no affinity request at all.
WorkerPinsAtEntryOnAndroid ==
    \A th \in WorkerThreads :
        /\ pc[th] \in {"none", "start"}
             => pins[th] = 0 /\ result[th] = "none" /\ mask[th] = "any"
        /\ (pc[th] \notin {"none", "start"} /\ android)
             => /\ pins[th] = 1
                /\ \/ result[th] = "ok" /\ mask[th] = "big"
                   \/ result[th] = "big_failed" /\ mask[th] = "any"
        /\ (pc[th] \notin {"none", "start"} /\ ~android)
             => pins[th] = 0 /\ result[th] = "none" /\ mask[th] = "any"

\* in an Android build one worker runs a task pinned to the performance
\* cores while the other one is blocked on the queue after its own request
PinnedWorkerRunsTask ==
    /\ android
    /\ \E i, j \in Workers :
         /\ pc[W(1, i)] = "run" /\ pins[W(1, i)] = 1 /\ mask[W(1, i)] = "big"
         /\ pc[W(1, j)] = "blocked" /\ pins[W(1, j)] = 1

\* ---- AlignedAlloc ----
\* C20 as stated: for every power-of-two alignment and every size_t size the
\* byte count AlignedAlloc asks the allocator for is size rounded up to the
\* next multiple of alignment, so a block it returns has at least size bytes.
RequestIsSizeRoundedUp ==
    a_pc # "entry"
      => /\ aligned_size % alignment = 0
         /\ aligned_size >= size
         /\ aligned_size - size < alignment

====
